---- MODULE Spec2Model ----
(***************************************************************************)
(* Model of the two programs of the repository:                            *)
(*   slim_webloc_names.py    batch simplification of shortcut names through *)
(*                           an external service, then renaming (SpecBatch) *)
(*   change_webloc_names.py  deduplication and title/rule based renaming    *)
(*                           (SpecDirect); its Steps 1 to 3 applied to one  *)
(*                           given file, pass after pass (SpecRules)        *)
(* The two programs share the variables; each specification leaves the      *)
(* variables of the other program at their initial values.                  *)
(* A string is a sequence of one-character strings; a non-ASCII character   *)
(* is written as a token naming its code point ("u54d4").                   *)
(***************************************************************************)
EXTENDS Integers, Sequences, FiniteSets, TLC

VARIABLES
    valid_webloc_files,  \* the pre-scanned list of shortcut paths
    batch_size,          \* args.batch_size
    dry_run,             \* args.dry_run
    fs,                  \* the disk: existing path -> id of the file stored there
    batched_filepaths,   \* work list of batch descriptors
    simplified_names,    \* insertion-ordered dict: sequence of [key, val]
    failed_instances,    \* list of failed paths
    rename_failed,       \* failed_instances local to rename_webloc_files
    ri,                  \* position of the loop of rename_webloc_files
    pc,                  \* position of main
    calls,               \* service calls issued: [id, ok, names, entries, extra]
    pauses,              \* rate-limit decision after each successful batch
    os_calls,            \* filesystem calls issued: [op, src, dst, ok]
    stdout,              \* report lines printed: [kind, path, name]
    url_of,              \* the URL stored in each file, by file id
    url_map,             \* canonical URL -> path of the first file that had it
    id,                  \* position of the loop of change_webloc_names.main
    total_count,         \* files processed by change_webloc_names.main
    log,                 \* what each iteration of that loop did
    given,               \* a URL, a page title, a file name and a directory
    step_1,              \* given.url and the results of Step 1 applied again and again
    step_3,              \* given.filename and the results of the basic renaming
    renames              \* the passes of Steps 1 to 3 made over the given file

vars == <<valid_webloc_files, batch_size, dry_run, fs, batched_filepaths,
          simplified_names, failed_instances, rename_failed, ri, pc, calls,
          pauses, os_calls, stdout, url_of, url_map, id, total_count, log,
          given, step_1, step_3, renames>>

directVars == <<url_of, url_map, id, total_count, log>>
ruleVars == <<given, step_1, step_3, renames>>
batchVars == <<batch_size, dry_run, batched_filepaths, simplified_names,
               rename_failed, ri, calls, pauses>>

----------------------------------------------------------------------------
(* Bounds *)

MaxFiles == 2
MaxBatch == 2
LongLen == 249

----------------------------------------------------------------------------
(* Strings *)

Min(S) == CHOOSE x \in S : \A y \in S : x <= y
Max(S) == CHOOSE x \in S : \A y \in S : x >= y

Pad(c, n) == [k \in 1..n |-> c]

\* s[i:] and s[:n] of Python for 0 <= n
From(s, i) == SubSeq(s, i, Len(s))
Take(s, n) == SubSeq(s, 1, IF n < Len(s) THEN n ELSE Len(s))

OccursAt(s, p, i) ==
    /\ i >= 1
    /\ i + Len(p) - 1 <= Len(s)
    /\ \A k \in 1..Len(p) : s[i + k - 1] = p[k]

\* str.find: the first position of p in s, 0 when there is none
Find(s, p) ==
    LET at == {i \in 1..(Len(s) - Len(p) + 1) : OccursAt(s, p, i)}
    IN  IF at = {} THEN 0 ELSE Min(at)

\* str.split(sep): the pieces between the non-overlapping occurrences of sep,
\* scanned left to right
RECURSIVE split(_, _)
split(s, sep) ==
    LET i == Find(s, sep)
    IN  IF i = 0 THEN <<s>>
        ELSE <<SubSeq(s, 1, i - 1)>> \o split(From(s, i + Len(sep)), sep)

Last(q) == q[Len(q)]

----------------------------------------------------------------------------
(* Paths and the os / os.path functions the programs use *)

Ext == <<".", "w", "e", "b", "l", "o", "c">>
Sep == <<" ", "-", " ">>

\* A path is a directory and a name in it.
Path(d, n) == [dir |-> d, name |-> n]
dirname(p) == p.dir
basename(p) == p.name
join(d, n) == [dir |-> d, name |-> n]

\* os.path.splitext of a name: cut at the last dot, unless only dots precede it
splitext(n) ==
    LET dots == {i \in 1..Len(n) : n[i] = "."}
        dot == IF dots = {} THEN 0 ELSE Max(dots)
    IN  IF dot = 0 \/ \A i \in 1..(dot - 1) : n[i] = "."
        THEN <<n, <<>>>>
        ELSE <<SubSeq(n, 1, dot - 1), From(n, dot)>>

\* os.rename(src, dst) on the disk f; the caller decides whether it raises
Renamed(f, src, dst) ==
    [p \in (DOMAIN f \ {src}) \cup {dst} |-> IF p = dst THEN f[src] ELSE f[p]]

\* whether os.rename(src, dst) can succeed (TRUE) or raise (FALSE) on the disk
\* f: a missing source or an empty target name raises, a rename of an
\* existing file onto itself does nothing, any other call may do either
RenameOutcomes(f, src, dst) ==
    IF src \notin DOMAIN f \/ dst.name = <<>> THEN {FALSE}
    ELSE IF src = dst THEN {TRUE}
    ELSE BOOLEAN

\* os.remove(path)
Removed(f, path) == [p \in DOMAIN f \ {path} |-> f[p]]

Rename(src, dst, ok) == [op |-> "rename", src |-> src, dst |-> dst, ok |-> ok]

----------------------------------------------------------------------------
(* Python values that a service response can hold *)

Str(s) == [t |-> "str", s |-> s]
Num == [t |-> "num", s |-> <<"5">>]
None == [t |-> "none", s |-> <<"N", "o", "n", "e">>]
\* a JSON object: has says whether it has the key 'simplified'
Obj(v) == [t |-> "dict", s |-> <<"{", "}">>, has |-> TRUE, simplified |-> v]
ObjWithout == [t |-> "dict", s |-> <<"{", "}">>, has |-> FALSE, simplified |-> None]

\* bool(v)
Truthy(v) ==
    CASE v.t = "str" -> v.s # <<>>
      [] v.t = "num" -> TRUE
      [] v.t = "none" -> FALSE
      [] OTHER -> TRUE

\* str(v), as an f-string formats it
Format(v) == v.s

\* the insertion-ordered dict simplified_names
DictHas(d, k) == \E i \in 1..Len(d) : d[i].key = k
DictGet(d, k) == d[CHOOSE i \in 1..Len(d) : d[i].key = k].val
DictSet(d, k, v) ==
    IF DictHas(d, k)
    THEN [i \in 1..Len(d) |-> IF d[i].key = k THEN [key |-> k, val |-> v] ELSE d[i]]
    ELSE Append(d, [key |-> k, val |-> v])

----------------------------------------------------------------------------
(* slim_webloc_names.py: simplify_filenames *)

\* the work list built with the chunks taken from the end of the list
BatchesBackwards(filepaths, bs) ==
    LET n == Len(filepaths)
        count == (n + bs - 1) \div bs
    IN  [k \in 1..count |->
            [id |-> k - 1,
             filenames |-> SubSeq(filepaths, (count - k) * bs + 1,
                                  Min({(count - k + 1) * bs, n})),
             attempts |-> 0]]

\* the work list built before the loop
Batches(filepaths, bs) ==
    LET n == Len(filepaths)
        count == (n + bs - 1) \div bs
    IN  [k \in 1..count |->
            [id |-> k - 1,
             filenames |-> SubSeq(filepaths, (k - 1) * bs + 1, Min({k * bs, n})),
             attempts |-> 0]]

\* SplitName keeping as prefix all the text before the last separator
SplitNameAtLast(filepath) ==
    LET base == splitext(basename(filepath))[1]
        parts == split(base, Sep)
    IN  [name_without_ext |-> Last(parts),
         prefix |-> IF Len(parts) > 1
                    THEN SubSeq(base, 1, Len(base) - Len(Last(parts)) - Len(Sep))
                    ELSE <<>>]

\* the name sent to the service and the prefix kept aside for one file
SplitName(filepath) ==
    LET parts == split(splitext(basename(filepath))[1], Sep)
    IN  [name_without_ext |-> Last(parts),
         prefix |-> IF Len(parts) > 1 THEN parts[1] ELSE <<>>]

file_prefix_list(batch) ==
    [k \in 1..Len(batch) |-> [filepath |-> batch[k], prefix |-> SplitName(batch[k]).prefix]]

Prompt(batch) == [k \in 1..Len(batch) |-> SplitName(batch[k]).name_without_ext]

\* try: simplified_name = simplified_name['simplified'] / except: pass
Simplified(entry) ==
    IF entry.t = "dict" /\ entry.has THEN entry.simplified ELSE entry

\* if prefix: simplified_name = f"{prefix} - {simplified_name}"
Reattach(prefix, simplified_name) ==
    IF prefix # <<>> THEN Str(prefix \o Sep \o Format(simplified_name))
    ELSE simplified_name

\* the update loop matching the entries with the records counted from the end
RECURSIVE UpdateFromEnd(_, _, _, _)
UpdateFromEnd(names, fpl, entries, k) ==
    IF k > Len(entries) \/ k > Len(fpl) THEN names
    ELSE UpdateFromEnd(DictSet(names, fpl[Len(fpl) + 1 - k].filepath,
                               Reattach(fpl[Len(fpl) + 1 - k].prefix,
                                        Simplified(entries[k]))),
                       fpl, entries, k + 1)

\* the update loop over the response, from entry k on; it stops at the first
\* entry that has no record (file_prefix_list[i] raises IndexError there)
RECURSIVE Update(_, _, _, _)
Update(names, fpl, entries, k) ==
    IF k > Len(entries) \/ k > Len(fpl) THEN names
    ELSE Update(DictSet(names, fpl[k].filepath,
                        Reattach(fpl[k].prefix, Simplified(entries[k]))),
                fpl, entries, k + 1)

\* if batch_dict['attempts'] < 1, evaluated after the increment
RetryAllowed(attempts) == attempts < 1

\* if i + batch_size < len(filepaths), where the update loop has rebound i
PauseDue(batch_dict, entries, bs, filepaths) ==
    LET i == IF Len(entries) > 0 THEN Len(entries) - 1 ELSE batch_dict.id
    IN  i + bs < Len(filepaths)

\* the except branch of the loop body
OnException(batch_dict, names) ==
    LET failed == [batch_dict EXCEPT !.attempts = @ + 1]
    IN  /\ simplified_names' = names
        /\ IF RetryAllowed(failed.attempts)
           THEN /\ batched_filepaths' = Append(Tail(batched_filepaths), failed)
                /\ UNCHANGED failed_instances
           ELSE /\ batched_filepaths' = Tail(batched_filepaths)
                /\ failed_instances' = failed_instances \o batch_dict.filenames
        /\ UNCHANGED pauses

\* what the service can put in one response slot
LongName == Pad("x", LongLen)
Entries ==
    {Obj(Str(<<"b">>)), Str(<<"c">>), Obj(Str(<<>>)), Obj(Str(LongName)),
     Obj(Num), ObjWithout}

Responses(n) == UNION {[1..m -> Entries] : m \in 0..n}

\* one iteration whose request fails (connection, HTTP status, or a body that
\* does not parse to something iterable)
ServiceRaises ==
    /\ pc = "simplify"
    /\ batched_filepaths # <<>>
    /\ LET batch_dict == Head(batched_filepaths)
       IN  /\ calls' = Append(calls, [id |-> batch_dict.id, ok |-> FALSE,
                                      names |-> Prompt(batch_dict.filenames),
                                      entries |-> <<>>, extra |-> FALSE])
           /\ OnException(batch_dict, simplified_names)
    /\ UNCHANGED <<valid_webloc_files, batch_size, dry_run, fs, rename_failed,
                   ri, pc, os_calls, stdout,
                   directVars, ruleVars>>

\* one iteration whose request returns a list; entries are the response slots
\* that have a record, extra says whether the list has more slots than that
ServiceResponds ==
    /\ pc = "simplify"
    /\ batched_filepaths # <<>>
    /\ LET batch_dict == Head(batched_filepaths)
           batch == batch_dict.filenames
       IN  \E entries \in Responses(Len(batch)), extra \in BOOLEAN :
             /\ extra => Len(entries) = Len(batch)
             /\ calls' = Append(calls, [id |-> batch_dict.id, ok |-> TRUE,
                                        names |-> Prompt(batch),
                                        entries |-> entries, extra |-> extra])
             /\ LET names == Update(simplified_names, file_prefix_list(batch),
                                    entries, 1)
                IN  IF extra
                    THEN OnException(batch_dict, names)
                    ELSE /\ simplified_names' = names
                         /\ batched_filepaths' = Tail(batched_filepaths)
                         /\ pauses' = Append(pauses,
                                [id |-> batch_dict.id,
                                 paused |-> PauseDue(batch_dict, entries,
                                                     batch_size, valid_webloc_files)])
                         /\ UNCHANGED failed_instances
    /\ UNCHANGED <<valid_webloc_files, batch_size, dry_run, fs, rename_failed,
                   ri, pc, os_calls, stdout,
                   directVars, ruleVars>>

----------------------------------------------------------------------------
(* slim_webloc_names.py: rename_webloc_files and main *)

UpperCase == <<"A", "B", "C", "D", "E", "F", "G", "H", "I", "J", "K", "L", "M",
               "N", "O", "P", "Q", "R", "S", "T", "U", "V", "W", "X", "Y", "Z">>
LowerCase == <<"a", "b", "c", "d", "e", "f", "g", "h", "i", "j", "k", "l", "m",
               "n", "o", "p", "q", "r", "s", "t", "u", "v", "w", "x", "y", "z">>

LowerOf ==
    [c \in {UpperCase[u] : u \in 1..26} |->
        LowerCase[CHOOSE u \in 1..26 : UpperCase[u] = c]]

\* str.lower
lower(s) ==
    [k \in 1..Len(s) |-> IF s[k] \in DOMAIN LowerOf THEN LowerOf[s[k]] ELSE s[k]]

\* new_name of rename_webloc_files, with its check of the length
NewName(simplified_name, extension) ==
    LET new_name == simplified_name \o extension
    IN  IF Len(new_name) > 255 THEN Take(new_name, 250) \o extension
        ELSE new_name

FailedPy == Path(<<".">>, <<"f", "a", "i", "l", "e", "d", ".", "p", "y">>)

\* the path of a report line that names no file
NoFile == Path(<<>>, <<>>)

\* main between the return of simplify_filenames and the confirmation
Display ==
    /\ pc = "simplify"
    /\ batched_filepaths = <<>>
    /\ IF simplified_names = <<>>
       THEN /\ pc' = "done"
            /\ stdout' = Append(stdout, [kind |-> "none", path |-> NoFile,
                                         name |-> Str(<<>>)])
       ELSE /\ pc' = IF dry_run THEN "rename" ELSE "confirm"
            /\ stdout' = stdout \o
                 [k \in 1..Len(simplified_names) |->
                    [kind |-> "proposed", path |-> simplified_names[k].key,
                     name |-> simplified_names[k].val]]
    /\ UNCHANGED <<valid_webloc_files, batch_size, dry_run, fs, batched_filepaths,
                   simplified_names, failed_instances, rename_failed, ri, calls,
                   pauses, os_calls,
                   directVars, ruleVars>>

\* input("Proceed with renaming? (y/n): ")
Confirm ==
    /\ pc = "confirm"
    /\ \E confirmation \in {<<"y">>, <<"Y">>, <<"n">>, <<>>} :
         IF lower(confirmation) # <<"y">>
         THEN /\ pc' = "done"
              /\ stdout' = stdout \o
                   <<[kind |-> "prompt", path |-> NoFile, name |-> Str(<<>>)],
                     [kind |-> "cancelled", path |-> NoFile, name |-> Str(<<>>)]>>
         ELSE /\ pc' = "rename"
              /\ stdout' = Append(stdout, [kind |-> "prompt", path |-> NoFile,
                                           name |-> Str(<<>>)])
    /\ UNCHANGED <<valid_webloc_files, batch_size, dry_run, fs, batched_filepaths,
                   simplified_names, failed_instances, rename_failed, ri, calls,
                   pauses, os_calls,
                   directVars, ruleVars>>

\* one iteration of the loop of rename_webloc_files
RenameOne ==
    /\ pc = "rename"
    /\ ri <= Len(simplified_names)
    /\ LET original_path == simplified_names[ri].key
           simplified_name == simplified_names[ri].val
           directory == dirname(original_path)
           original_name == basename(original_path)
           extension == splitext(original_name)[2]
       IN  IF ~Truthy(simplified_name)
           THEN /\ ri' = ri + 1
                /\ UNCHANGED <<fs, rename_failed, pc, os_calls, stdout>>
           ELSE IF simplified_name.t # "str"
           THEN \* simplified_name + extension raises TypeError outside the try
                /\ pc' = "crashed"
                /\ UNCHANGED <<fs, rename_failed, ri, os_calls, stdout>>
           ELSE LET new_name == NewName(simplified_name.s, extension)
                    new_path == join(directory, new_name)
                IN  IF dry_run
                    THEN /\ stdout' = Append(stdout, [kind |-> "would",
                                          path |-> original_path, name |-> new_name])
                         /\ ri' = ri + 1
                         /\ UNCHANGED <<fs, rename_failed, pc, os_calls>>
                    ELSE \E ok \in RenameOutcomes(fs, original_path, new_path) :
                           /\ os_calls' = Append(os_calls,
                                             Rename(original_path, new_path, ok))
                           /\ IF ok
                              THEN /\ fs' = Renamed(fs, original_path, new_path)
                                   /\ UNCHANGED rename_failed
                              ELSE /\ rename_failed' = Append(rename_failed, original_path)
                                   /\ UNCHANGED fs
                           /\ ri' = ri + 1
                           /\ UNCHANGED <<pc, stdout>>
    /\ UNCHANGED <<valid_webloc_files, batch_size, dry_run, batched_filepaths,
                   simplified_names, failed_instances, calls, pauses,
                   directVars, ruleVars>>

\* main after rename_webloc_files has returned: the failure report
Report ==
    /\ pc = "rename"
    /\ ri > Len(simplified_names)
    /\ LET all == failed_instances \o rename_failed
       IN  /\ failed_instances' = all
           /\ IF Len(all) > 0
              THEN /\ stdout' = stdout \o
                        [k \in 1..Len(all) |->
                            [kind |-> "failed", path |-> all[k], name |-> <<>>]]
                   /\ os_calls' = Append(os_calls,
                        [op |-> "write", src |-> FailedPy, dst |-> FailedPy, ok |-> TRUE])
                   /\ fs' = [p \in DOMAIN fs \cup {FailedPy} |->
                                IF p = FailedPy THEN 0 ELSE fs[p]]
              ELSE UNCHANGED <<stdout, os_calls, fs>>
    /\ pc' = "done"
    /\ UNCHANGED <<valid_webloc_files, batch_size, dry_run, batched_filepaths,
                   simplified_names, rename_failed, ri, calls, pauses,
                   directVars, ruleVars>>

\* the shortcut names of the runs that are explored
Dir == <<"d">>
BatchNames ==
    << <<"a">> \o Ext,
       <<"p">> \o Sep \o <<"a">> \o Ext,
       Sep \o <<"a">> \o Ext,
       <<"p">> \o Sep \o <<"q">> \o Sep \o <<"a">> \o Ext >>

RECURSIVE Sorted(_)
Sorted(S) == IF S = {} THEN <<>> ELSE <<Min(S)>> \o Sorted(S \ {Min(S)})

\* the lists find_webloc_files can return: a selection of the names, in order
FileLists(names) ==
    {[k \in 1..Cardinality(S) |-> Path(Dir, names[Sorted(S)[k]])] :
        S \in {T \in SUBSET (1..Len(names)) : Cardinality(T) \in 1..MaxFiles}}

InitBatch ==
    /\ valid_webloc_files \in FileLists(BatchNames)
    /\ batch_size \in 1..MaxBatch
    /\ dry_run \in BOOLEAN
    /\ fs = [p \in {valid_webloc_files[k] : k \in 1..Len(valid_webloc_files)} |->
                CHOOSE k \in 1..Len(valid_webloc_files) : valid_webloc_files[k] = p]
    /\ batched_filepaths = Batches(valid_webloc_files, batch_size)
    /\ simplified_names = <<>>
    /\ failed_instances = <<>>
    /\ rename_failed = <<>>
    /\ ri = 1
    /\ pc = "simplify"
    /\ calls = <<>>
    /\ pauses = <<>>
    /\ os_calls = <<>>
    /\ stdout = <<>>
    /\ url_of = <<>>
    /\ url_map = [u \in {} |-> Path(<<>>, <<>>)]
    /\ id = 0
    /\ total_count = 0
    /\ log = <<>>
    /\ given = <<>>
    /\ step_1 = <<>>
    /\ step_3 = <<>>
    /\ renames = <<>>

NextBatch ==
    \/ ServiceRaises
    \/ ServiceResponds
    \/ Display
    \/ Confirm
    \/ RenameOne
    \/ Report

SpecBatch == InitBatch /\ [][NextBatch]_vars

----------------------------------------------------------------------------
(* change_webloc_names.py: strings, rules and the sanitizing steps *)

startswith(s, p) == OccursAt(s, p, 1)
endswith(s, p) == Len(p) <= Len(s) /\ OccursAt(s, p, Len(s) - Len(p) + 1)

\* str.replace(old, new): every non-overlapping occurrence, left to right
RECURSIVE replace(_, _, _)
replace(s, old, new) ==
    LET i == Find(s, old)
    IN  IF i = 0 THEN s
        ELSE SubSeq(s, 1, i - 1) \o new \o replace(From(s, i + Len(old)), old, new)

\* s[:m] of Python, m of either sign
Slice(s, m) ==
    IF m >= 0 THEN Take(s, m)
    ELSE SubSeq(s, 1, IF Len(s) + m > 0 THEN Len(s) + m ELSE 0)

\* the string literals of the source
BiliSuffix1 ==
    <<"_", "u54d4", "u54e9", "u54d4", "u54e9", "b", "i", "l", "i", "b",
      "i", "l", "i">>
BiliSuffix2 ==
    <<"_", "u54d4", "u54e9", "u54d4", "u54e9", "_", "b", "i", "l", "i",
      "b", "i", "l", "i">>
YouTubeViews ==
    <<"u2022", " ", "u2022", " ", "u6536", "u770b", "u6b21", "u6578">>
YouTubeBrand ==
    <<" ", "-", " ", "Y", "o", "u", "T", "u", "b", "e">>
BaikeSuffix ==
    <<"_", "u767e", "u5ea6", "u767e", "u79d1">>
WikiSuffix1 ==
    <<" ", "-", " ", "u7dad", "u57fa", "u767e", "u79d1", ",", " ", "u81ea",
      "u7531", "u7684", "u767e", "u79d1", "u5168", "u66f8">>
WikiSuffix2 ==
    <<" ", "u7dad", "u57fa", "u767e", "u79d1", "uff0c", "u81ea", "u7531",
      "u7684", "u767e", "u79d1", "u5168", "u66f8">>
GeeksSuffix ==
    <<" ", "|", " ", "G", "e", "e", "k", "s", "f", "o", "r", "G", "e", "e",
      "k", "s">>
StackOverflowSuffix ==
    <<" ", "-", " ", "S", "t", "a", "c", "k", " ", "O", "v", "e", "r", "f",
      "l", "o", "w">>
LatexSuffix ==
    <<" ", "-", " ", "T", "e", "X", " ", "-", " ", "L", "a", "T", "e", "X",
      " ", "S", "t", "a", "c", "k", " ", "E", "x", "c", "h", "a", "n", "g",
      "e">>
ZhihuSuffix ==
    <<" ", "-", " ", "u77e5", "u4e4e">>
CsdnSuffix ==
    <<"-", "C", "S", "D", "N", "u535a", "u5ba2">>
BbcSuffix1 ==
    <<" ", "-", " ", "B", "B", "C", " ", "N", "e", "w", "s", " ", "u4e2d",
      "u6587">>
BbcSuffix2 ==
    <<" ", "-", " ", "B", "B", "C", " ", "N", "e", "w", "s">>
GithubSep ==
    <<" ", "u00b7", " ">>
LinkPrefix ==
    <<" ", " ", " ", " ", " ", " ", " ", "L", "i", "n", "k", " ", "-", " ">>
YouTubeWatch ==
    <<"h", "t", "t", "p", "s", ":", "/", "/", "w", "w", "w", ".", "y", "o",
      "u", "t", "u", "b", "e", ".", "c", "o", "m", "/", "w", "a", "t", "c",
      "h", "?">>
BilibiliVideo ==
    <<"h", "t", "t", "p", "s", ":", "/", "/", "w", "w", "w", ".", "b", "i",
      "l", "i", "b", "i", "l", "i", ".", "c", "o", "m", "/", "v", "i", "d",
      "e", "o", "/">>
CutPp ==
    <<"&", "p", "p">>
CutVdAmp ==
    <<"&", "v", "d", "_", "s", "o", "u", "r", "c", "e", "=">>
CutVdQ ==
    <<"?", "v", "d", "_", "s", "o", "u", "r", "c", "e", "=">>
CutSpm ==
    <<"?", "s", "p", "m", "_", "i", "d", "_", "f", "r", "o", "m", "=">>

\* PLATFORM_RULES in declared order: label, prefix and the alternatives of the
\* detect pattern (each a literal substring, matched ignoring case)
PLATFORM_RULES ==
    <<
      [web |-> "BILIBILI",
       prefix |->
          <<" ", " ", " ", " ", " ", " ", " ", "B", "i", "l", "i", "b",
            "i", "l", "i", " ", "-", " ">>,
       detect |-> <<
          <<"b", "2", "3", ".", "t", "v">>,
          <<"b", "i", "l", "i", "b", "i", "l", "i", ".", "c", "o", "m">>>>],
      [web |-> "YOUTUBE",
       prefix |->
          <<" ", " ", " ", " ", " ", " ", " ", "Y", "o", "u", "T", "u",
            "b", "e", " ", "-", " ">>,
       detect |-> <<
          <<"y", "o", "u", "t", "u", ".", "b", "e">>,
          <<"y", "o", "u", "t", "u", "b", "e", ".", "c", "o", "m">>>>],
      [web |-> "BAIKE",
       prefix |->
          <<" ", " ", " ", " ", " ", " ", " ", "u767e", "u5ea6", "u767e",
            "u79d1", " ", "-", " ">>,
       detect |-> <<
          <<"b", "a", "i", "k", "e", ".", "b", "a", "i", "d", "u", ".",
            "c", "o", "m">>>>],
      [web |-> "WIKIPEDIA",
       prefix |->
          <<" ", " ", " ", " ", " ", " ", " ", "W", "i", "k", "i", "p",
            "e", "d", "i", "a", " ", "-", " ">>,
       detect |-> <<
          <<"w", "i", "k", "i", "p", "e", "d", "i", "a", ".", "o", "r", "g">>>>],
      [web |-> "GEEKSFORGEEKS",
       prefix |->
          <<" ", " ", " ", " ", " ", " ", " ", "G", "e", "e", "k", "s",
            "f", "o", "r", "G", "e", "e", "k", "s", " ", "-", " ">>,
       detect |-> <<
          <<"g", "e", "e", "k", "s", "f", "o", "r", "g", "e", "e", "k",
            "s", ".", "o", "r", "g">>>>],
      [web |-> "STACKOVERFLOW",
       prefix |->
          <<" ", " ", " ", " ", " ", " ", " ", "S", "t", "a", "c", "k",
            "O", "v", "e", "r", "f", "l", "o", "w", " ", "-", " ">>,
       detect |-> <<
          <<"s", "t", "a", "c", "k", "o", "v", "e", "r", "f", "l", "o",
            "w", ".", "c", "o", "m">>>>],
      [web |-> "LATEX STACK EXCHANGE",
       prefix |->
          <<" ", " ", " ", " ", " ", " ", " ", "L", "a", "t", "e", "x",
            " ", "S", "t", "a", "c", "k", "E", "x", "c", "h", "a", "n",
            "g", "e", " ", "-", " ">>,
       detect |-> <<
          <<"t", "e", "x", ".", "s", "t", "a", "c", "k", "e", "x", "c",
            "h", "a", "n", "g", "e", ".", "c", "o", "m">>>>],
      [web |-> "ZHIHU",
       prefix |->
          <<" ", " ", " ", " ", " ", " ", " ", "Z", "h", "i", "h", "u",
            " ", "-", " ">>,
       detect |-> <<
          <<"z", "h", "i", "h", "u", ".", "c", "o", "m">>>>],
      [web |-> "CSDN",
       prefix |->
          <<" ", " ", " ", " ", " ", " ", " ", "C", "S", "D", "N", " ",
            "-", " ">>,
       detect |-> <<
          <<"b", "l", "o", "g", ".", "c", "s", "d", "n", ".", "n", "e", "t">>>>],
      [web |-> "HUGGINGFACE",
       prefix |->
          <<" ", " ", " ", " ", " ", " ", " ", "H", "u", "g", "g", "i",
            "n", "g", "F", "a", "c", "e", " ", "-", " ">>,
       detect |-> <<
          <<"h", "u", "g", "g", "i", "n", "g", "f", "a", "c", "e", ".",
            "c", "o">>>>],
      [web |-> "BBC",
       prefix |->
          <<" ", " ", " ", " ", " ", " ", " ", "B", "B", "C", " ", "-", " ">>,
       detect |-> <<
          <<"b", "b", "c", ".", "c", "o", "m">>>>],
      [web |-> "PYTHON",
       prefix |->
          <<" ", " ", " ", " ", " ", " ", " ", "P", "y", "t", "h", "o",
            "n", " ", "-", " ">>,
       detect |-> <<
          <<"p", "y", "t", "h", "o", "n", ".", "o", "r", "g">>>>],
      [web |-> "GITHUB",
       prefix |->
          <<" ", " ", " ", " ", " ", " ", " ", "G", "i", "t", "h", "u",
            "b", " ", "-", " ">>,
       detect |-> <<
          <<"g", "i", "t", "h", "u", "b", ".", "c", "o", "m">>>>]
    >>

\* the code points of the characters written as tokens
NonAscii ==
    <<<<"u00b7", 183>>,
      <<"u2022", 8226>>,
      <<"u2764", 10084>>,
      <<"u3000", 12288>>,
      <<"u4e2d", 20013>>,
      <<"u4e4e", 20046>>,
      <<"u5168", 20840>>,
      <<"u535a", 21338>>,
      <<"u54d4", 21716>>,
      <<"u54e9", 21737>>,
      <<"u57fa", 22522>>,
      <<"u5ba2", 23458>>,
      <<"u5ea6", 24230>>,
      <<"u6536", 25910>>,
      <<"u6578", 25976>>,
      <<"u6587", 25991>>,
      <<"u66f8", 26360>>,
      <<"u6b21", 27425>>,
      <<"u7531", 30001>>,
      <<"u767e", 30334>>,
      <<"u7684", 30340>>,
      <<"u770b", 30475>>,
      <<"u77e5", 30693>>,
      <<"u79d1", 31185>>,
      <<"u7dad", 32173>>,
      <<"u81ea", 33258>>,
      <<"ufe0f", 65039>>,
      <<"uff0c", 65292>>,
      <<"uff1a", 65306>>,
      <<"uff5c", 65372>>,
      <<"u1f600", 128512>>>>

\* the ranges of EMOJI_PATTERN
EMOJI_PATTERN ==
    <<<<128512, 128591>>,
      <<127744, 128511>>,
      <<128640, 128767>>,
      <<128768, 128895>>,
      <<128896, 129023>>,
      <<129024, 129279>>,
      <<129280, 129535>>,
      <<129536, 129647>>,
      <<129648, 129791>>,
      <<9986, 10160>>,
      <<9410, 9599>>,
      <<9728, 9983>>,
      <<9984, 10175>>,
      <<65024, 65039>>,
      <<127462, 127487>>>>

\* the characters of the model that EMOJI_PATTERN matches
Emoji ==
    {NonAscii[k][1] : k \in
        {j \in 1..Len(NonAscii) :
            \E r \in 1..Len(EMOJI_PATTERN) :
                /\ EMOJI_PATTERN[r][1] <= NonAscii[j][2]
                /\ NonAscii[j][2] <= EMOJI_PATTERN[r][2]}}

IsEmoji(c) == c \in Emoji

\* EMOJI_PATTERN.sub('', s)
EmojiSub(s) == SelectSeq(s, LAMBDA c : ~IsEmoji(c))

\* rule["detect"](url): re.search of the alternatives, ignoring case
detect(rule, url) ==
    \E k \in 1..Len(rule.detect) : Find(lower(url), rule.detect[k]) # 0

\* rule["suffix_cleaner"](n)
suffix_cleaner(web, n) ==
    CASE web = "BILIBILI" -> split(split(n, BiliSuffix1)[1], BiliSuffix2)[1]
      [] web = "YOUTUBE" ->
            replace(split(Slice(n, -8), YouTubeViews)[1], YouTubeBrand, <<>>)
      [] web = "BAIKE" -> replace(n, BaikeSuffix, <<>>)
      [] web = "WIKIPEDIA" -> replace(replace(n, WikiSuffix1, <<>>), WikiSuffix2, <<>>)
      [] web = "GEEKSFORGEEKS" -> replace(n, GeeksSuffix, <<>>)
      [] web = "STACKOVERFLOW" -> replace(n, StackOverflowSuffix, <<>>)
      [] web = "LATEX STACK EXCHANGE" -> replace(n, LatexSuffix, <<>>)
      [] web = "ZHIHU" -> replace(n, ZhihuSuffix, <<>>)
      [] web = "CSDN" -> replace(n, CsdnSuffix, <<>>)
      [] web = "HUGGINGFACE" -> n
      [] web = "BBC" -> replace(replace(n, BbcSuffix1, <<>>), BbcSuffix2, <<>>)
      [] web = "PYTHON" -> n
      [] web = "GITHUB" -> split(n, GithubSep)[1]

\* Step 1 cutting the YouTube URL at its last '&pp' only
CleanUrlAtLast(url) ==
    IF startswith(url, YouTubeWatch) /\ Find(url, CutPp) # 0
    THEN Slice(url, 0 - Len(CutPp) - Len(Last(split(url, CutPp))))
    ELSE url

\* Step 1: the tracking parameters cut from the URL
CleanUrl(url) ==
    LET u1 == IF startswith(url, YouTubeWatch) THEN split(url, CutPp)[1] ELSE url
    IN  IF startswith(u1, BilibiliVideo)
        THEN split(split(split(u1, CutVdAmp)[1], CutVdQ)[1], CutSpm)[1]
        ELSE u1

\* Step 2: the chain of replacements applied to a fetched title
CleanTitle(title) ==
    LET t1 == replace(title, <<"/">>, <<"_">>)
        t2 == replace(t1, <<":">>, <<"uff1a">>)
        t3 == replace(t2, Sep, <<" ">>)
        t4 == replace(t3, <<" ", "|", " ">>, <<" ">>)
        t5 == replace(t4, <<"uff5c">>, <<" ">>)
        t6 == replace(t5, <<"?">>, <<>>)
        t7 == replace(t6, <<"!">>, <<>>)
        t8 == replace(t7, <<"-", " ">>, <<" ">>)
    IN  replace(t8, <<" ", "-">>, <<" ">>)

\* max_length = 255 - len(".webloc") - len(directory), and the cut to it
Truncate(name, directory) ==
    LET max_length == 255 - Len(Ext) - Len(directory)
    IN  IF Len(name) > max_length THEN Slice(name, max_length) ELSE name

\* Step 3, first lines: characters removed from the name
BasicRename(name) ==
    EmojiSub(replace(replace(replace(replace(name, <<"?">>, <<>>), <<"!">>, <<>>),
                             <<"/">>, <<>>), <<"u3000">>, <<" ">>))

\* the rules that accept the URL, by position in PLATFORM_RULES
Matching(url) == {k \in 1..Len(PLATFORM_RULES) : detect(PLATFORM_RULES[k], url)}

\* Step 3, the for/else over PLATFORM_RULES
SiteRename(url, step_2_filename) ==
    LET step_3_filename == BasicRename(step_2_filename)
    IN  IF Matching(url) = {}
        THEN LinkPrefix \o Last(split(step_2_filename, Sep))
        ELSE LET rule == PLATFORM_RULES[Min(Matching(url))]
                 prefixed ==
                    IF ~startswith(step_2_filename, rule.prefix)
                    THEN rule.prefix \o Last(split(step_3_filename, Sep))
                    ELSE step_3_filename
             IN  suffix_cleaner(rule.web, prefixed)

\* Step 3, last lines: the final path of a file whose Step 2 path is given
FinalPath(url, step_2_filename, step_2_filepath) ==
    LET directory == dirname(step_2_filepath)
        step_3_filename == Truncate(SiteRename(url, step_2_filename), directory)
    IN  IF endswith(step_3_filename, Ext) THEN join(directory, step_3_filename)
        ELSE join(directory, step_3_filename \o Ext)

----------------------------------------------------------------------------
(* change_webloc_names.py: main *)

NoUrl == <<>>
NoTitle == <<>>
NoPath == Path(<<>>, <<>>)

\* parse_webloc(filepath) on the disk f: the URL of the file, None when the
\* path holds no shortcut
parse_webloc(f, filepath) ==
    IF filepath \in DOMAIN f THEN url_of[f[filepath]] ELSE NoUrl

\* the path at which the file fid is stored on the disk f
Where(f, fid) ==
    IF \E p \in DOMAIN f : f[p] = fid THEN CHOOSE p \in DOMAIN f : f[p] = fid
    ELSE NoPath

\* if url in url_map
Seen(map, url) == url \in DOMAIN map

\* a loop that never records the URL it has kept
Forget(map, url, filepath) == map

\* url_map[url] = filepath
Remember(map, url, filepath) ==
    [u \in DOMAIN map \cup {url} |-> IF u = url THEN filepath ELSE map[u]]

\* Step 2 for a fetched title: the name and the path the file is renamed to
Step2Name(title, filepath) == Truncate(CleanTitle(title), dirname(filepath))

\* what get_webpage_title can return for the pages of the runs explored
LongTitle == Pad("x", LongLen)
Titles == {NoTitle, <<"t">>, LongTitle}

\* an iteration over a path that no longer holds a shortcut
SkipFile ==
    /\ pc = "process"
    /\ id < Len(valid_webloc_files)
    /\ parse_webloc(fs, valid_webloc_files[id + 1]) = NoUrl
    /\ id' = id + 1
    /\ log' = Append(log, [filepath |-> valid_webloc_files[id + 1], raw |-> NoUrl,
                           url |-> NoUrl, dup |-> FALSE, named |-> FALSE,
                           step_2 |-> NoPath, final |-> NoPath, renamed |-> FALSE,
                           failed |-> FALSE, ops |-> <<>>, at |-> NoPath])
    /\ UNCHANGED <<valid_webloc_files, fs, failed_instances, pc, os_calls, stdout,
                   url_of, url_map, total_count, batchVars, ruleVars>>

\* an iteration that finds the URL in url_map and removes the file
RemoveDuplicate ==
    /\ pc = "process"
    /\ id < Len(valid_webloc_files)
    /\ LET filepath == valid_webloc_files[id + 1]
           raw == parse_webloc(fs, filepath)
           url == CleanUrl(raw)
       IN  /\ raw # NoUrl
           /\ Seen(url_map, url)
           /\ \E ok \in BOOLEAN :
                LET op == [op |-> "remove", src |-> filepath, dst |-> filepath,
                           ok |-> ok]
                    disk == IF ok THEN Removed(fs, filepath) ELSE fs
                IN  /\ fs' = disk
                    /\ os_calls' = Append(os_calls, op)
                    /\ failed_instances' =
                         IF ok THEN failed_instances
                         ELSE Append(failed_instances, filepath)
                    /\ log' = Append(log,
                         [filepath |-> filepath, raw |-> raw, url |-> url,
                          dup |-> TRUE, named |-> FALSE, step_2 |-> NoPath,
                          final |-> NoPath, renamed |-> FALSE, failed |-> ~ok,
                          ops |-> <<op>>, at |-> Where(disk, fs[filepath])])
    /\ id' = id + 1
    /\ total_count' = total_count + 1
    /\ UNCHANGED <<valid_webloc_files, pc, stdout, url_of, url_map, batchVars, ruleVars>>

\* an iteration that keeps the file: Step 2 and Step 3
RenameFile ==
    /\ pc = "process"
    /\ id < Len(valid_webloc_files)
    /\ parse_webloc(fs, valid_webloc_files[id + 1]) # NoUrl
    /\ \E filepath \in {valid_webloc_files[id + 1]} :
       \E raw \in {parse_webloc(fs, filepath)} :
       \E url \in {CleanUrl(raw)} :
         /\ ~Seen(url_map, url)
         /\ url_map' = Remember(url_map, url, filepath)
         /\ \E title \in Titles :
            \E step_2_filename \in
                  {IF title # NoTitle THEN Step2Name(title, filepath)
                   ELSE basename(filepath)} :
            \E step_2_filepath \in
                  {IF title # NoTitle THEN join(dirname(filepath), step_2_filename)
                   ELSE filepath} :
            \E step_3_filepath \in
                  {FinalPath(url, step_2_filename, step_2_filepath)} :
            \E ok2 \in IF title # NoTitle
                       THEN RenameOutcomes(fs, filepath, step_2_filepath)
                       ELSE {TRUE} :
            \E disk2 \in {IF title # NoTitle /\ ok2
                          THEN Renamed(fs, filepath, step_2_filepath) ELSE fs} :
            \E ok3 \in RenameOutcomes(disk2, step_2_filepath, step_3_filepath) :
              LET fetched == title # NoTitle
                  op2 == Rename(filepath, step_2_filepath, ok2)
                  op3 == Rename(step_2_filepath, step_3_filepath, ok3)
                  disk3 == IF ok3 THEN Renamed(disk2, step_2_filepath, step_3_filepath)
                           ELSE disk2
                  ops == IF fetched THEN <<op2, op3>> ELSE <<op3>>
              IN
                  /\ fs' = disk3
                  /\ os_calls' = os_calls \o ops
                  /\ failed_instances' =
                       IF ok3 THEN failed_instances
                       ELSE Append(failed_instances, filepath)
                  /\ log' = Append(log,
                       [filepath |-> filepath, raw |-> raw, url |-> url,
                        dup |-> FALSE, named |-> TRUE, step_2 |-> step_2_filepath,
                        final |-> step_3_filepath, renamed |-> ok3,
                        failed |-> ~ok3, ops |-> ops,
                        at |-> Where(disk3, fs[filepath])])
    /\ id' = id + 1
    /\ total_count' = total_count + 1
    /\ UNCHANGED <<valid_webloc_files, pc, stdout, url_of, batchVars, ruleVars>>

\* after the loop: the count and the list of failed files are printed
Finish ==
    /\ pc = "process"
    /\ id = Len(valid_webloc_files)
    /\ pc' = "end"
    /\ stdout' = stdout \o
         [k \in 1..Len(failed_instances) |->
            [kind |-> "failed", path |-> failed_instances[k], name |-> <<>>]]
    /\ UNCHANGED <<valid_webloc_files, fs, failed_instances, os_calls, url_of,
                   url_map, id, total_count, log, batchVars, ruleVars>>

\* the shortcuts of the runs explored: names and the URLs stored in them
DirectNames ==
    << <<"a">> \o Ext,
       LinkPrefix \o <<"a">> \o Ext,
       <<"t">> >>

UrlVideoX == YouTubeWatch \o <<"v", "=", "a">> \o CutPp \o <<"=", "x">>
UrlVideoY == YouTubeWatch \o <<"v", "=", "a">> \o CutPp \o <<"=", "y">>
UrlOther ==
    <<"h", "t", "t", "p", "s", ":", "/", "/", "e", ".", "o", "r", "g", "/", "x">>
Urls == {UrlVideoX, UrlVideoY, UrlOther}

InitDirect ==
    /\ valid_webloc_files \in FileLists(DirectNames)
    /\ url_of \in [1..Len(valid_webloc_files) -> Urls]
    /\ fs = [p \in {valid_webloc_files[k] : k \in 1..Len(valid_webloc_files)} |->
                CHOOSE k \in 1..Len(valid_webloc_files) : valid_webloc_files[k] = p]
    /\ url_map = [u \in {} |-> NoPath]
    /\ id = 0
    /\ total_count = 0
    /\ log = <<>>
    /\ failed_instances = <<>>
    /\ pc = "process"
    /\ os_calls = <<>>
    /\ stdout = <<>>
    /\ batch_size = 1
    /\ dry_run = FALSE
    /\ batched_filepaths = <<>>
    /\ simplified_names = <<>>
    /\ rename_failed = <<>>
    /\ ri = 1
    /\ calls = <<>>
    /\ pauses = <<>>
    /\ given = <<>>
    /\ step_1 = <<>>
    /\ step_3 = <<>>
    /\ renames = <<>>

NextDirect ==
    \/ SkipFile
    \/ RemoveDuplicate
    \/ RenameFile
    \/ Finish

SpecDirect == InitDirect /\ [][NextDirect]_vars

----------------------------------------------------------------------------
(* change_webloc_names.py: Steps 1 to 3 applied to one given file *)

MaxPasses == 2

Https ==
    <<"h", "t", "t", "p", "s", ":", "/", "/">>

\* a host for each rule of PLATFORM_RULES, one that two rules accept and one
\* in capitals
Hosts ==
    <<
      <<"b", "2", "3", ".", "t", "v">>,
      <<"y", "o", "u", "t", "u", ".", "b", "e">>,
      <<"b", "a", "i", "k", "e", ".", "b", "a", "i", "d", "u", ".", "c",
        "o", "m">>,
      <<"z", "h", ".", "w", "i", "k", "i", "p", "e", "d", "i", "a", ".",
        "o", "r", "g">>,
      <<"w", "w", "w", ".", "g", "e", "e", "k", "s", "f", "o", "r", "g",
        "e", "e", "k", "s", ".", "o", "r", "g">>,
      <<"s", "t", "a", "c", "k", "o", "v", "e", "r", "f", "l", "o", "w",
        ".", "c", "o", "m">>,
      <<"t", "e", "x", ".", "s", "t", "a", "c", "k", "e", "x", "c", "h",
        "a", "n", "g", "e", ".", "c", "o", "m">>,
      <<"w", "w", "w", ".", "z", "h", "i", "h", "u", ".", "c", "o", "m">>,
      <<"b", "l", "o", "g", ".", "c", "s", "d", "n", ".", "n", "e", "t">>,
      <<"h", "u", "g", "g", "i", "n", "g", "f", "a", "c", "e", ".", "c", "o">>,
      <<"w", "w", "w", ".", "b", "b", "c", ".", "c", "o", "m">>,
      <<"d", "o", "c", "s", ".", "p", "y", "t", "h", "o", "n", ".", "o",
        "r", "g">>,
      <<"g", "i", "t", "h", "u", "b", ".", "c", "o", "m">>,
      <<"b", "2", "3", ".", "t", "v", "/", "y", "o", "u", "t", "u", "b",
        "e", ".", "c", "o", "m">>,
      <<"Y", "O", "U", "T", "U", ".", "B", "E">>
    >>

\* URLs with the tracking parameters that Step 1 cuts
UrlVideoTwice == UrlVideoX \o CutPp \o <<"=", "y">>
UrlBiliAmp == BilibiliVideo \o <<"B", "V", "?", "p", "=", "1">> \o CutVdAmp \o <<"x">>
UrlBiliQ == BilibiliVideo \o <<"B", "V">> \o CutVdQ \o <<"x">> \o CutPp
UrlBiliSpm == BilibiliVideo \o <<"B", "V">> \o CutSpm \o <<"x">> \o CutVdAmp \o <<"y">>

\* the URLs parse_webloc returns for the given file
GivenUrls ==
    {Https \o Hosts[k] \o <<"/", "x">> : k \in 1..Len(Hosts)}
        \cup {UrlVideoX, UrlVideoTwice, UrlBiliAmp, UrlBiliQ, UrlBiliSpm, UrlOther}

\* the page titles get_webpage_title returns for it
ExampleTitle ==
    <<"S", "o", "m", "e", " ", "V", "i", "d", "e", "o", " ", "u2022", " ",
      "u2022", " ", "u6536", "u770b", "u6b21", "u6578", " ", "1", "2", "3",
      " ", "-", " ", "Y", "o", "u", "T", "u", "b", "e">>
SymbolTitle ==
    <<"a", "u2764", "u3000", "b">>
GivenTitles == {NoTitle, ExampleTitle, SymbolTitle, <<"a", "b">>}

\* its name and its directory
GivenNames ==
    {<<"a", "b", "c">> \o Ext, <<"a", "!">> \o Ext}
LongDir == Pad("d", LongLen)
GivenDirs == {Dir, LongDir}

\* Step 1 applied to the URL it has produced
Step1 ==
    /\ pc = "rules"
    /\ Len(step_1) <= MaxPasses
    /\ step_1' = Append(step_1, CleanUrl(Last(step_1)))
    /\ UNCHANGED <<valid_webloc_files, fs, failed_instances, pc, os_calls, stdout,
                   directVars, batchVars, given, step_3, renames>>

\* the basic renaming of Step 3 and the cut to max_length, applied to the
\* name they have produced
Step3Basic ==
    /\ pc = "rules"
    /\ Len(step_3) <= MaxPasses
    /\ step_3' = Append(step_3, Truncate(BasicRename(Last(step_3)), given.directory))
    /\ UNCHANGED <<valid_webloc_files, fs, failed_instances, pc, os_calls, stdout,
                   directVars, batchVars, given, step_1, renames>>

\* the names computed by one iteration of the loop for the given file: the
\* first pass over the given name with the given title, a later pass over the
\* final name of the pass before it, with no title
Pass ==
    /\ pc = "rules"
    /\ Len(renames) < MaxPasses
    /\ \E title \in {IF renames = <<>> THEN given.title ELSE NoTitle} :
       \E filepath \in {join(given.directory,
                            IF renames = <<>> THEN given.filename
                            ELSE Last(renames).final)} :
       \E url \in {CleanUrl(given.url)} :
       \E step_2_filename \in {IF title # NoTitle THEN Step2Name(title, filepath)
                               ELSE basename(filepath)} :
       \E step_2_filepath \in {IF title # NoTitle
                               THEN join(dirname(filepath), step_2_filename)
                               ELSE filepath} :
         renames' = Append(renames,
            [url |-> url, title |-> title, filename |-> basename(filepath),
             step_2 |-> step_2_filename,
             candidate |-> SiteRename(url, step_2_filename),
             final |-> basename(FinalPath(url, step_2_filename, step_2_filepath))])
    /\ UNCHANGED <<valid_webloc_files, fs, failed_instances, pc, os_calls, stdout,
                   directVars, batchVars, given, step_1, step_3>>

InitRules ==
    /\ given \in [url : GivenUrls, title : GivenTitles, filename : GivenNames,
                  directory : GivenDirs]
    /\ step_1 = <<given.url>>
    /\ step_3 = <<given.filename>>
    /\ renames = <<>>
    /\ pc = "rules"
    /\ valid_webloc_files = <<join(given.directory, given.filename)>>
    /\ fs = [p \in {valid_webloc_files[1]} |-> 1]
    /\ url_of = <<given.url>>
    /\ url_map = [u \in {} |-> NoPath]
    /\ id = 0
    /\ total_count = 0
    /\ log = <<>>
    /\ failed_instances = <<>>
    /\ os_calls = <<>>
    /\ stdout = <<>>
    /\ batch_size = 1
    /\ dry_run = FALSE
    /\ batched_filepaths = <<>>
    /\ simplified_names = <<>>
    /\ rename_failed = <<>>
    /\ ri = 1
    /\ calls = <<>>
    /\ pauses = <<>>

NextRules ==
    \/ Step1
    \/ Step3Basic
    \/ Pass

SpecRules == InitRules /\ [][NextRules]_vars

----------------------------------------------------------------------------
(* Properties of the batch pipeline *)

Range(q) == {q[k] : k \in 1..Len(q)}
Count(q, x) == Cardinality({k \in 1..Len(q) : q[k] = x})

\* the records of the batch with this id
BatchOf(bid) == Batches(valid_webloc_files, batch_size)[bid + 1].filenames
BatchIds == {b.id : b \in Range(Batches(valid_webloc_files, batch_size))}
CallsOf(bid) == {k \in 1..Len(calls) : calls[k].id = bid}

\* the service call k ended in a successful batch
Succeeded(k) == calls[k].ok /\ ~calls[k].extra

\* C1: once the work list is drained, a batch all of whose service calls
\* failed has been attempted exactly maxAttempts = 2 times and each of its
\* records is in the failure list exactly once.
C1_RetryBound ==
    (pc = "simplify" /\ batched_filepaths = <<>>) =>
        \A bid \in BatchIds :
            (\A k \in CallsOf(bid) : ~calls[k].ok) =>
                /\ Cardinality(CallsOf(bid)) = 2
                /\ \A f \in Range(BatchOf(bid)) : Count(failed_instances, f) = 1

\* C3: a record in the failure list returned by simplify_filenames has no
\* entry in simplified_names and no rename is issued for it.
C3_QuarantineExclusion ==
    (pc \in {"simplify", "confirm", "rename", "crashed"}) =>
        \A f \in Range(failed_instances) :
            /\ ~DictHas(simplified_names, f)
            /\ \A c \in Range(os_calls) : c.op = "rename" => c.src # f

\* C6: no response of the service makes the run end in an uncaught error.
C6_NoFatalError == pc # "crashed"

\* C7: every name committed to the filesystem is within the 255-character
\* limit, the name produced by the hard truncation included.
C7_LengthInvariant ==
    \A c \in Range(os_calls) : c.op = "rename" => Len(c.dst.name) <= 255

\* C8: a dry run issues no filesystem call: no rename, no remove, no write.
C8_DryRunSafety == dry_run => os_calls = <<>>


\* the final name the update loop must have stored for a record, given the
\* response entry at its position: the text before the first separator is the
\* prefix, and an empty prefix is not reattached
TextBefore(base) == SubSeq(base, 1, Find(base, Sep) - 1)
Candidate(filepath, entry) ==
    LET base == splitext(basename(filepath))[1]
    IN  IF Find(base, Sep) # 0 /\ TextBefore(base) # <<>>
        THEN Str(TextBefore(base) \o Sep \o Format(Simplified(entry)))
        ELSE Simplified(entry)

\* C9 as stated: after a successful batch, entry i is the name of record i,
\* and a record with no entry gets its original basename as final name and is
\* not in the failure list.
C9_FallbackToBasename ==
    \A k \in 1..Len(calls) :
        Succeeded(k) =>
            \A j \in 1..Len(BatchOf(calls[k].id)) :
                LET f == BatchOf(calls[k].id)[j]
                IN  /\ DictHas(simplified_names, f)
                    /\ DictGet(simplified_names, f) =
                         IF j <= Len(calls[k].entries)
                         THEN Candidate(f, calls[k].entries[j])
                         ELSE Str(splitext(basename(f))[1])
                    /\ j > Len(calls[k].entries) =>
                         f \notin Range(failed_instances)

\* C9 (amended): after a successful batch, entry i is the name stored for
\* record i, and a record with no entry has no name stored at all (it keeps
\* its file name) and is not in the failure list.
C9_PositionalMatching ==
    \A k \in 1..Len(calls) :
        Succeeded(k) =>
            \A j \in 1..Len(BatchOf(calls[k].id)) :
                LET f == BatchOf(calls[k].id)[j]
                IN  IF j <= Len(calls[k].entries)
                    THEN /\ DictHas(simplified_names, f)
                         /\ DictGet(simplified_names, f) =
                              Candidate(f, calls[k].entries[j])
                    ELSE /\ ~DictHas(simplified_names, f)
                         /\ f \notin Range(failed_instances)

\* a successful batch of two records answered with one entry
C9_Witness ==
    \E k \in 1..Len(calls) :
        /\ Succeeded(k)
        /\ Len(calls[k].entries) = 1
        /\ Len(BatchOf(calls[k].id)) = 2
        /\ DictHas(simplified_names, BatchOf(calls[k].id)[1])
        /\ ~DictHas(simplified_names, BatchOf(calls[k].id)[2])

\* C10 as stated: a record of a successful batch whose basename contains the
\* separator is named (text before the separator) + ' - ' + simplified name,
\* any other record is named by the simplified name alone.
C10_PrefixAlwaysReattached ==
    \A k \in 1..Len(calls) :
        Succeeded(k) =>
            \A j \in 1..Len(calls[k].entries) :
                LET f == BatchOf(calls[k].id)[j]
                    base == splitext(basename(f))[1]
                    simplified == Simplified(calls[k].entries[j])
                IN  DictGet(simplified_names, f) =
                        IF Find(base, Sep) # 0
                        THEN Str(TextBefore(base) \o Sep \o Format(simplified))
                        ELSE simplified

\* C10 (amended): the prefix is the text before the first separator; it is
\* reattached when it is not empty, and the simplified name stands alone when
\* the basename has no separator or nothing before the first one.
C10_PrefixPreservation ==
    \A k \in 1..Len(calls) :
        Succeeded(k) =>
            \A j \in 1..Len(calls[k].entries) :
                LET f == BatchOf(calls[k].id)[j]
                    base == splitext(basename(f))[1]
                    simplified == Simplified(calls[k].entries[j])
                IN  DictGet(simplified_names, f) =
                        IF Find(base, Sep) = 0 THEN simplified
                        ELSE IF TextBefore(base) = <<>> THEN simplified
                        ELSE Str(TextBefore(base) \o Sep \o Format(simplified))

\* a successful batch that named a record with several separators and a
\* record with nothing before its separator
C10_Witness ==
    /\ DictHas(simplified_names, Path(Dir, BatchNames[4]))
    /\ DictGet(simplified_names, Path(Dir, BatchNames[4])) =
         Str(<<"p">> \o Sep \o <<"b">>)
    /\ DictHas(simplified_names, Path(Dir, BatchNames[3]))
    /\ DictGet(simplified_names, Path(Dir, BatchNames[3])) = Str(<<"b">>)
    /\ failed_instances = <<>>

----------------------------------------------------------------------------
(* Properties of the direct pipeline *)

\* the iterations that read a URL
Processed == {k \in 1..Len(log) : log[k].raw # NoUrl}

\* C2: among the processed records that have one canonical URL, the first is
\* named and is not a duplicate, every other one is a duplicate: its removal
\* is the only filesystem call issued for it.
C2_Dedup ==
    \A j \in Processed :
        IF \E i \in Processed : i < j /\ log[i].url = log[j].url
        THEN /\ log[j].dup
             /\ ~log[j].named
             /\ \A k \in 1..Len(log[j].ops) :
                    log[j].ops[k].op = "remove" /\ log[j].ops[k].src = log[j].filepath
        ELSE /\ ~log[j].dup
             /\ log[j].named

\* two records whose URLs differ only in the tracking parameter: the first is
\* renamed, the second removed
C2_Witness ==
    \E i, j \in Processed :
        /\ i < j
        /\ log[i].raw # log[j].raw
        /\ log[i].url = log[j].url
        /\ log[i].renamed
        /\ log[j].dup
        /\ log[j].at = NoPath

\* C4: when the processing of a record ends, its file is at its original
\* path or at its final path.
C4_NoHalfAppliedRename ==
    \A j \in Processed :
        ~log[j].dup => log[j].at \in {log[j].filepath, log[j].final}

\* C5: a record is in the list of failures exactly when a rename (or removal)
\* issued for it failed, in both programs, and when a run ends every record
\* has been processed: renamed, removed or reported.
FailedSources(ops) ==
    LET failed == SelectSeq(ops, LAMBDA c : c.op # "write" /\ ~c.ok)
    IN  [k \in 1..Len(failed) |-> failed[k].src]

C5_Isolation ==
    /\ pc \in {"rename", "crashed"} => rename_failed = FailedSources(os_calls)
    /\ (pc = "done" /\ ri > 1) =>
            \A k \in 1..Len(simplified_names) :
                (Truthy(simplified_names[k].val) /\ ~dry_run) =>
                    \E c \in Range(os_calls) :
                        c.op = "rename" /\ c.src = simplified_names[k].key
    /\ \A j \in 1..Len(log) :
            (\E c \in Range(log[j].ops) : ~c.ok) <=>
                log[j].filepath \in Range(failed_instances)
    /\ pc = "end" =>
            \A j \in 1..Len(log) :
                \/ log[j].renamed
                \/ log[j].dup
                \/ log[j].filepath \in Range(failed_instances)

----------------------------------------------------------------------------
(* Properties of Steps 1 to 3 *)

\* the rule that is applied to a URL: its position in PLATFORM_RULES, 0 for
\* the fallback
Applied(u) == IF Matching(u) = {} THEN 0 ELSE Min(Matching(u))

ExampleCandidate ==
    <<" ", " ", " ", " ", " ", " ", " ", "Y", "o", "u", "T", "u", "b", "e",
      " ", "-", " ", "S", "o", "m", "e", " ", "V", "i", "d", "e", "o">>

\* C11: for a URL to which the YOUTUBE rule is applied and the fetched title
\* 'Some Video (bullet) (bullet) (view count) 123 - YouTube', the name the
\* rule produces is exactly '       YouTube - Some Video'.
C11_YouTubeExample ==
    \A k \in 1..Len(renames) :
        (/\ Applied(renames[k].url) = 2
         /\ PLATFORM_RULES[2].web = "YOUTUBE"
         /\ renames[k].title = ExampleTitle)
            => renames[k].candidate = ExampleCandidate

\* C12: Step 1 is idempotent: applied to a URL it has produced, it returns
\* that URL unchanged.
C12_CanonicalizeIdempotent ==
    \A k \in 2..Len(step_1) : k + 1 <= Len(step_1) => step_1[k + 1] = step_1[k]

\* Step 1 has cut a tracking parameter and has been applied again
C12_Witness ==
    /\ pc = "rules"
    /\ Len(step_1) >= 3
    /\ step_1[2] # step_1[1]
    /\ startswith(step_1[1], BilibiliVideo)

\* C13: the sanitizing of Step 3 (characters removed, emoji removed,
\* full-width space replaced, cut to max_length) is idempotent for every
\* directory, those that make max_length zero or negative included.
C13_SanitizeIdempotent ==
    \A k \in 2..Len(step_3) : k + 1 <= Len(step_3) => step_3[k + 1] = step_3[k]

\* C14: a pass over the file that carries the final name of the pass before
\* it, with the same URL and no page title, computes the same final name.
C14_RenameIdempotent ==
    \A k \in 1..Len(renames) :
        k + 1 <= Len(renames) => renames[k + 1].final = renames[k].final

----------------------------------------------------------------------------
(* Properties of the batch program, continued *)

Printed(kind) == {k \in 1..Len(stdout) : stdout[k].kind = kind}

\* C15: when a run of the batch program has ended, every record of a batch
\* that exhausted its attempts has been printed in the report of failures,
\* also when no batch succeeded and when the confirmation was declined.
C15_QuarantineReported ==
    pc = "done" =>
        \A f \in Range(failed_instances) :
            \E k \in Printed("failed") : stdout[k].path = f

Accepted == Printed("prompt") # {} /\ Printed("cancelled") = {}
Renames == {k \in 1..Len(os_calls) : os_calls[k].op = "rename"}

\* C16: without --dry-run no rename is issued before the confirmation is
\* given; none is ever issued once it is declined; once it is accepted the
\* run ends with a rename attempted for every record that has a non-empty
\* final name.
C16_ConfirmationGate ==
    /\ (~dry_run /\ Renames # {}) => Accepted
    /\ Printed("cancelled") # {} => Renames = {}
    /\ (~dry_run /\ Accepted /\ pc \in {"done", "crashed"}) =>
            \A k \in 1..Len(simplified_names) :
                Truthy(simplified_names[k].val) =>
                    \E c \in Renames : os_calls[c].src = simplified_names[k].key

\* C17: after a successful batch the rate-limit pause is executed exactly
\* when the batch is not the last one.
C17_InterBatchPause ==
    \A k \in 1..Len(pauses) :
        pauses[k].paused <=>
            pauses[k].id + 1 < Len(Batches(valid_webloc_files, batch_size))

\* the records of a work list, batch after batch
RECURSIVE Flatten(_)
Flatten(q) == IF q = <<>> THEN <<>> ELSE Head(q).filenames \o Flatten(Tail(q))

\* the work list before the first service call: consecutive chunks of
\* batch_size records (the last one may be shorter), in the order of the input
Chunked ==
    /\ Flatten(batched_filepaths) = valid_webloc_files
    /\ \A k \in 1..Len(batched_filepaths) :
          /\ batched_filepaths[k].id = k - 1
          /\ Len(batched_filepaths[k].filenames) \in 1..batch_size
          /\ k < Len(batched_filepaths) =>
                Len(batched_filepaths[k].filenames) = batch_size

\* a service call is made for the batch at the head of the work list, which
\* leaves the list, or goes to its back when it is requeued; nothing else
\* changes the list
SentFromHead ==
    IF calls' # calls
    THEN /\ batched_filepaths # <<>>
         /\ calls' = Append(calls, Last(calls'))
         /\ Last(calls').id = Head(batched_filepaths).id
         /\ Last(calls').names = Prompt(Head(batched_filepaths).filenames)
         /\ \/ batched_filepaths' = Tail(batched_filepaths)
            \/ batched_filepaths' =
                 Append(Tail(batched_filepaths),
                        [Head(batched_filepaths) EXCEPT !.attempts = @ + 1])
    ELSE batched_filepaths' = batched_filepaths

\* C18: the input is cut into consecutive chunks of batch_size records in
\* order, each record in exactly one batch, and the batches are sent to the
\* service from the head of the work list, a requeued batch going to its back.
C18_FifoOrder ==
    /\ []((pc = "simplify" /\ calls = <<>>) => Chunked)
    /\ [][SentFromHead]_vars

\* two batches have been sent, the one made of the first record first
C18_Witness ==
    /\ Len(calls) = 2
    /\ Len(valid_webloc_files) = 2
    /\ calls[1].id = 0
    /\ calls[2].id = 1
    /\ calls[1].names = Prompt(<<valid_webloc_files[1]>>)

----------------------------------------------------------------------------
(* Properties of Steps 1 to 3, continued *)

\* C19: the final name of a file, whether a rule or the fallback is applied
\* and whether or not a title was fetched, holds no '/', '?', '!', no
\* character of EMOJI_PATTERN and no full-width space.
C19_SanitizedFinalName ==
    \A k \in 1..Len(renames) :
        \A c \in Range(renames[k].final) :
            c \notin {"/", "?", "!", "u3000"} /\ ~IsEmoji(c)

\* the prefix of the rule applied to a URL
PrefixFor(u) ==
    IF Applied(u) = 0 THEN LinkPrefix ELSE PLATFORM_RULES[Applied(u)].prefix

\* C20: the name is produced by the first rule, in declared order, whose
\* detect accepts the URL, or by the fallback when there is none, and it
\* begins with the prefix of that rule.
C20_FirstMatchPrefix ==
    \A k \in 1..Len(renames) :
        startswith(renames[k].candidate, PrefixFor(renames[k].url))

----------------------------------------------------------------------------
(* Properties of the direct program, continued *)

\* the canonical URLs stored in the files that are on the disk
UrlsOnDisk == {CleanUrl(url_of[fs[p]]) : p \in DOMAIN fs}

\* C21: when a run of the direct program has ended, every canonical URL that
\* was stored in a shortcut before the run is still stored in a file on the
\* disk.
C21_NoUrlLost ==
    pc = "end" =>
        \A k \in 1..Len(url_of) : CleanUrl(url_of[k]) \in UrlsOnDisk

====
